---- MODULE Spec2Model ----
(***************************************************************************)
(* A model of the "180 IQ" solver (src/unnamed/part_000): the bounded      *)
(* factorial, the RPN evaluator, the infix renderer, and findSolutions     *)
(* with its enumeration, unary decoration pass, sigma handling, tracker    *)
(* and final distillation.                                                 *)
(*                                                                         *)
(* JavaScript numbers are modelled by integers.  Every finite number the   *)
(* program handles is a non-negative integer; Infinity, -Infinity, NaN and *)
(* null (the evaluator's "no result") are modelled by negative sentinels,  *)
(* which are never operands of TLA+ arithmetic: every operator below tests *)
(* for them first.                                                         *)
(***************************************************************************)
EXTENDS Integers, Sequences, FiniteSets, TLC

VARIABLES
    \* ---- findSolutions (specification Spec) ----
    input,      \* the arguments of the outermost call
    callStack,  \* the call stack: one frame per active findSolutions call
    ret,        \* the Result returned by the call that completed last
    outcome,    \* "idle" | "running" | "returned" | "RangeError" | "TypeError"
    topResult,  \* the Result of the outermost call, once returned
    \* ---- the evaluator run on its own (specification SpecEval) ----
    evRpn,      \* the token sequence handed to evaluateRPN
    evPos,      \* number of tokens already consumed by the for-loop
    evStack,    \* the local `stack`
    evPushed,   \* history: every value pushed so far, in order
    evShort,    \* history: some operator found too few operands
    evStatus,   \* "idle" | "running" | "returned"
    evResult,   \* the value returned (null until then)
    evInfix     \* the string rpnToInfix made of an accepted evRpn ('' before)

evVars ==
    <<evRpn, evPos, evStack, evPushed, evShort, evStatus, evResult, evInfix>>

fsVars == <<input, callStack, ret, outcome, topResult>>

vars == <<input, callStack, ret, outcome, topResult,
          evRpn, evPos, evStack, evPushed, evShort, evStatus, evResult,
          evInfix>>

(***************************************************************************)
(* Bounds of the model.                                                    *)
(***************************************************************************)
MaxRpnLen == 4
MaxNum == 5
MaxTarget == 12
MaxCallDepth == 8

(***************************************************************************)
(* JavaScript values.                                                      *)
(***************************************************************************)
Infinity == -2
null == -1

FactorialLimit == 10
PowCeiling == 10000

IsInteger(v) == v # Infinity /\ v # null

\* A token is a number or an operator string (typeof token === 'number').
Num(n) == [op |-> "num", n |-> n]
Op(s) == [op |-> s, n |-> 0]
IsNumber(t) == t.op = "num"

AllOps == <<"+", "-", "*", "/", "^", "sqrt", "root", "!">>

RECURSIVE factorialLoop(_, _, _)
factorialLoop(i, n, result) ==
    IF i <= n THEN factorialLoop(i + 1, n, result * i) ELSE result

factorial(n) ==
    IF n = Infinity \/ n < 0 \/ n > FactorialLimit THEN Infinity
    ELSE IF n = 0 \/ n = 1 THEN 1
    ELSE factorialLoop(2, n, 1)

(***************************************************************************)
(* Math.pow on finite non-negative integers, cut at cap + 1 so that no     *)
(* product leaves the integers of the checker: CappedPow(a, b, cap) is     *)
(* a^b when a^b <= cap and cap + 1 otherwise (0^0 = 1 as in JavaScript).   *)
(***************************************************************************)
RECURSIVE CappedPowLoop(_, _, _, _)
CappedPowLoop(a, k, acc, cap) ==
    IF k = 0 THEN acc
    ELSE IF acc > cap \div a THEN cap + 1
    ELSE CappedPowLoop(a, k - 1, acc * a, cap)

CappedPow(a, b, cap) ==
    IF b = 0 THEN 1
    ELSE IF a <= 1 THEN a
    ELSE CappedPowLoop(a, b, 1, cap)

(***************************************************************************)
(* The integer r with r^b <= a < (r+1)^b, for b >= 1.                      *)
(***************************************************************************)
RECURSIVE FloorRootSearch(_, _, _, _)
FloorRootSearch(a, b, lo, hi) ==
    IF lo >= hi THEN lo
    ELSE LET mid == (lo + hi + 1) \div 2
         IN IF CappedPow(mid, b, a) <= a
            THEN FloorRootSearch(a, b, mid, hi)
            ELSE FloorRootSearch(a, b, lo, mid - 1)

FloorRoot(a, b) == FloorRootSearch(a, b, 0, a)

\* Math.sqrt(a) when it is an integer, null when it is not (a finite).
sqrtInteger(a) ==
    LET r == FloorRoot(a, 2) IN IF r * r = a THEN r ELSE null

(***************************************************************************)
(* The unary branch of evaluateRPN: the value pushed, or null for the      *)
(* early `return null`.                                                    *)
(***************************************************************************)
evalUnary(token, a) ==
    IF token = "!"
    THEN IF a = Infinity THEN null      \* !Number.isInteger(Infinity)
         ELSE IF a < 0 THEN null
         ELSE factorial(a)              \* pushed unchecked, Infinity included
    ELSE IF a = Infinity THEN null      \* Math.sqrt(Infinity) is no integer
         ELSE IF a < 0 THEN null
         ELSE sqrtInteger(a)

(***************************************************************************)
(* The binary branch of evaluateRPN on operands a (pushed first) and b:    *)
(* the value pushed, or null for `return null` (an early one or the final  *)
(* !Number.isInteger(res)).  With an Infinity operand the JavaScript       *)
(* results are: + - * give Infinity or NaN; 0 / Infinity = 0;              *)
(* Infinity ^ 0 = 1, 0 ^ Infinity = 0, 1 ^ Infinity = NaN;                 *)
(* Math.pow(a, 1 / Infinity) = 1.                                          *)
(*                                                                         *)
(* 'root' keeps Math.pow(a, 1/b) when it lies within 0.00001 of an         *)
(* integer.  For a < 16383 and b < 69315 that is the case exactly when a   *)
(* is a perfect b-th power (the nearest exceptions are 2^14 - 1 with       *)
(* b = 14, and a = 2 with b >= 69315); every operand pair the inputs below *)
(* produce lies in that range, so the test is modelled by the exact one.   *)
(***************************************************************************)
\* mutant: the quotient is truncated instead of the remainder being tested
divide_Truncating(a, b) ==
    IF b = 0 THEN null
    ELSE IF a = Infinity THEN null
    ELSE IF b = Infinity THEN (IF a = 0 THEN 0 ELSE null)
    ELSE a \div b

\* case '/': `if (b === 0 || a % b !== 0) return null; res = a / b;`
divide(a, b) ==
    IF b = 0 THEN null
    ELSE IF a = Infinity THEN null            \* Infinity % b is NaN
    ELSE IF b = Infinity THEN (IF a = 0 THEN 0 ELSE null)
    ELSE IF a % b # 0 THEN null ELSE a \div b

evalBinary(token, a, b) ==
    CASE token = "+" ->
            IF a = Infinity \/ b = Infinity THEN null ELSE a + b
      [] token = "-" ->
            IF a = Infinity \/ b = Infinity THEN null
            ELSE IF a < b THEN null ELSE a - b
      [] token = "*" ->
            IF a = Infinity \/ b = Infinity THEN null ELSE a * b
      [] token = "/" -> divide(a, b)
      [] token = "^" ->
            IF a = Infinity THEN (IF b = 0 THEN 1 ELSE null)
            ELSE IF b = Infinity THEN (IF a = 0 THEN 0 ELSE null)
            ELSE LET p == CappedPow(a, b, PowCeiling)
                 IN IF p > PowCeiling THEN null ELSE p
      [] token = "root" ->
            IF b = Infinity THEN 1                    \* Math.pow(a, 0)
            ELSE IF b < 2 \/ (a # Infinity /\ a < 0) THEN null
            ELSE IF a = Infinity THEN null
            ELSE LET r == FloorRoot(a, b)
                 IN IF CappedPow(r, b, a) = a THEN r ELSE null
      [] OTHER -> null                                \* res stays undefined

IsUnaryOp(token) == token = "!" \/ token = "sqrt"

(***************************************************************************)
(* One iteration of evaluateRPN's for-loop on `stack`:                     *)
(* [ok, stack, pushed, short].  ok = FALSE is `return null`; short tells   *)
(* that the return was the operand-count check.                            *)
(***************************************************************************)
Pop(stack, k) == SubSeq(stack, 1, Len(stack) - k)

evalToken(stack, token) ==
    IF IsNumber(token)
    THEN [ok |-> TRUE, stack |-> Append(stack, token.n),
          pushed |-> <<token.n>>, short |-> FALSE]
    ELSE IF IsUnaryOp(token.op)
    THEN IF Len(stack) < 1
         THEN [ok |-> FALSE, stack |-> stack, pushed |-> <<>>, short |-> TRUE]
         ELSE LET res == evalUnary(token.op, stack[Len(stack)])
              IN IF res = null
                 THEN [ok |-> FALSE, stack |-> Pop(stack, 1),
                       pushed |-> <<>>, short |-> FALSE]
                 ELSE [ok |-> TRUE, stack |-> Append(Pop(stack, 1), res),
                       pushed |-> <<res>>, short |-> FALSE]
    ELSE IF Len(stack) < 2
         THEN [ok |-> FALSE, stack |-> stack, pushed |-> <<>>, short |-> TRUE]
         ELSE LET res == evalBinary(token.op, stack[Len(stack) - 1],
                                    stack[Len(stack)])
              IN IF res = null
                 THEN [ok |-> FALSE, stack |-> Pop(stack, 2),
                       pushed |-> <<>>, short |-> FALSE]
                 ELSE [ok |-> TRUE, stack |-> Append(Pop(stack, 2), res),
                       pushed |-> <<res>>, short |-> FALSE]

\* mutant: the top of the stack is returned without the length check
finalValue_TopOfStack(stack) ==
    IF Len(stack) = 0 THEN null ELSE stack[Len(stack)]

\* `if (stack.length !== 1) return null; return stack[0];`
finalValue(stack) == IF Len(stack) # 1 THEN null ELSE stack[1]

RECURSIVE evalLoop(_, _, _)
evalLoop(rpn, i, stack) ==
    IF i > Len(rpn)
    THEN finalValue(stack)
    ELSE LET s == evalToken(stack, rpn[i])
         IN IF s.ok THEN evalLoop(rpn, i + 1, s.stack) ELSE null

evaluateRPN(rpn) == evalLoop(rpn, 1, <<>>)

(***************************************************************************)
(* rpnToInfix.  A string is a sequence of one-character strings.  Each     *)
(* stack entry is [val, prec]; popping an empty stack gives undefined, and *)
(* reading `.val` of it throws a TypeError, as does stack[0].val on an     *)
(* empty stack: the result is then the marker TypeErrorThrown.             *)
(***************************************************************************)
Digit(d) == <<"0", "1", "2", "3", "4", "5", "6", "7", "8", "9">>[d + 1]

RECURSIVE toString(_)
toString(n) ==
    IF n < 10 THEN <<Digit(n)>> ELSE toString(n \div 10) \o <<Digit(n % 10)>>

TypeErrorThrown == <<"TypeError">>

NumberPrec == 4

precedence(token) ==
    CASE token = "+" \/ token = "-" -> 1
      [] token = "*" \/ token = "/" -> 2
      [] token = "^" \/ token = "root" -> 3
      [] OTHER -> 0

parens(val) == <<"(">> \o val \o <<")">>

\* `${a.val}!` and `sqrt(${a.val})`
renderUnary(token, a) ==
    IF token = "!"
    THEN [val |-> a.val \o <<"!">>, prec |-> NumberPrec]
    ELSE [val |-> <<"s", "q", "r", "t">> \o parens(a.val), prec |-> NumberPrec]

renderBinary(token, a, b) ==
    LET opPrec == precedence(token)
        valA == IF a.prec < opPrec THEN parens(a.val) ELSE a.val
        valB == IF b.prec <= opPrec THEN parens(b.val) ELSE b.val
    IN [val |-> IF token = "root"
                THEN valB \o <<" ", "r", "o", "o", "t", " ">> \o valA
                ELSE valA \o <<token>> \o valB,
        prec |-> opPrec]

RECURSIVE renderLoop(_, _, _)
renderLoop(rpn, i, stack) ==
    IF i > Len(rpn)
    THEN IF Len(stack) = 0 THEN TypeErrorThrown ELSE stack[1].val
    ELSE LET token == rpn[i]
         IN IF IsNumber(token)
            THEN renderLoop(rpn, i + 1,
                     Append(stack, [val |-> toString(token.n),
                                    prec |-> NumberPrec]))
            ELSE IF IsUnaryOp(token.op)
            THEN IF Len(stack) < 1 THEN TypeErrorThrown
                 ELSE renderLoop(rpn, i + 1,
                          Append(Pop(stack, 1),
                                 renderUnary(token.op, stack[Len(stack)])))
            ELSE IF Len(stack) < 2 THEN TypeErrorThrown
                 ELSE renderLoop(rpn, i + 1,
                          Append(Pop(stack, 2),
                                 renderBinary(token.op, stack[Len(stack) - 1],
                                              stack[Len(stack)])))

rpnToInfix(rpn) == renderLoop(rpn, 1, <<>>)

(***************************************************************************)
(* findSolutions: the level.  A JavaScript level is a string ("B", "1",    *)
(* "2", "3") or a number (Math.min(level, 2) makes one); `key` is the      *)
(* property key it selects in opsByLevel.                                  *)
(***************************************************************************)
NaN == -3

StrLevel(s) == [type |-> "string", key |-> s]
NumLevel(s) == [type |-> "number", key |-> s]

\* ToNumber(level), as the comparisons `level >= 2` and Math.min apply it.
ToNumber(level) ==
    CASE level.key = "1" -> 1
      [] level.key = "2" -> 2
      [] level.key = "3" -> 3
      [] OTHER -> NaN

opsByLevel(level) ==
    CASE level.key = "1" -> <<"+", "-", "*", "/", "^">>
      [] level.key = "2" -> <<"+", "-", "*", "/", "^", "sqrt", "root">>
      [] level.key = "3" -> <<"+", "-", "*", "/", "^", "sqrt", "root", "!">>
      [] OTHER -> <<"+", "-", "*", "/">>       \* 'B', and the || fallback

\* level >= 2
levelAtLeast2(level) == ToNumber(level) # NaN /\ ToNumber(level) >= 2

\* level === 3: strict equality, false for every string
levelIs3(level) == level.type = "number" /\ ToNumber(level) = 3

\* Math.min(level, 2), a number
minLevel2(level) ==
    IF ToNumber(level) >= 2 THEN NumLevel("2") ELSE NumLevel(level.key)

Includes(seq, x) == \E k \in 1..Len(seq) : seq[k] = x

(***************************************************************************)
(* Permutations.  Strings are sequences of one-character strings.          *)
(***************************************************************************)
\* the concatenation of seqs[lo..hi], by halves
RECURSIVE ConcatRange(_, _, _)
ConcatRange(seqs, lo, hi) ==
    IF lo > hi THEN <<>>
    ELSE IF lo = hi THEN seqs[lo]
    ELSE LET mid == (lo + hi) \div 2
         IN ConcatRange(seqs, lo, mid) \o ConcatRange(seqs, mid + 1, hi)

Concat(seqs) == ConcatRange(seqs, 1, Len(seqs))

RECURSIVE getPermutations(_)
getPermutations(arr) ==
    IF Len(arr) = 0 THEN << <<>> >>
    ELSE LET firstEl == arr[1]
             permsWithoutFirst == getPermutations(Tail(arr))
             withFirst(perm) ==
                 [i \in 1..(Len(perm) + 1) |->
                     SubSeq(perm, 1, i - 1) \o <<firstEl>>
                         \o SubSeq(perm, i, Len(perm))]
         IN Concat([k \in 1..Len(permsWithoutFirst) |->
                        withFirst(permsWithoutFirst[k])])

\* p.join(',')
RECURSIVE join(_)
join(p) ==
    IF Len(p) = 0 THEN <<>>
    ELSE IF Len(p) = 1 THEN toString(p[1])
    ELSE toString(p[1]) \o <<",">> \o join(Tail(p))

\* s.split(','): the pieces between the commas ('' gives one empty piece)
RECURSIVE split(_, _)
split(s, piece) ==
    IF Len(s) = 0 THEN <<piece>>
    ELSE IF Head(s) = "," THEN <<piece>> \o split(Tail(s), <<>>)
    ELSE split(Tail(s), Append(piece, Head(s)))

DigitValue(c) == CHOOSE d \in 0..9 : Digit(d) = c

\* Number(piece) for a string of decimal digits; Number('') is 0
RECURSIVE toNumber(_, _)
toNumber(piece, acc) ==
    IF Len(piece) = 0 THEN acc
    ELSE toNumber(Tail(piece), acc * 10 + DigitValue(Head(piece)))

\* [...new Set(strings)]: the first occurrence of each, in order
dedupe(strings) ==
    Concat([k \in 1..Len(strings) |->
               IF \E j \in 1..(k - 1) : strings[j] = strings[k]
               THEN <<>> ELSE <<strings[k]>>])

numPermutations(numbers) ==
    LET perms == getPermutations(numbers)
        joined == [k \in 1..Len(perms) |-> join(perms[k])]
        distinct == dedupe(joined)
    IN [k \in 1..Len(distinct) |->
           LET pieces == split(distinct[k], <<>>)
           IN [j \in 1..Len(pieces) |-> toNumber(pieces[j], 0)]]

(***************************************************************************)
(* Operator assignments: generateOpCombinations(ops, length) lists the     *)
(* sequences over ops in lexicographic order, the last position varying    *)
(* fastest; opComboAt gives its element of 0-based index k.                *)
(***************************************************************************)
RECURSIVE generateOpCombinations(_, _, _)
generateOpCombinations(ops, length, current) ==
    IF Len(current) = length THEN <<current>>
    ELSE Concat([k \in 1..Len(ops) |->
                    generateOpCombinations(ops, length, Append(current, ops[k]))])

opComboCount(ops, length) == Len(ops) ^ length

opComboAt(ops, length, k) ==
    [j \in 1..length |->
        ops[((k \div (Len(ops) ^ (length - j))) % Len(ops)) + 1]]

(***************************************************************************)
(* The tracker: the `solutions` Map (entries in insertion order) and       *)
(* `closest`.  A record's `expression` is rpnToInfix(rpn), a function of   *)
(* its rpn, and is not stored.  A record built without an rpn (the sigma   *)
(* insert) reads back `undefined` for it.                                  *)
(***************************************************************************)
undefined == <<Op("undefined")>>
noSigma == [start |-> null, end |-> null, body |-> ""]
NegInfinity == -4
SigmaScore == 100
SigmaRange == 20
MaxExact == 3

MapHas(map, key) == \E k \in 1..Len(map) : map[k].key = key

\* mutant: set adds an entry even when the key is present
MapSet_Appending(map, key, val) == Append(map, [key |-> key, val |-> val])

MapSet(map, key, val) ==
    IF MapHas(map, key)
    THEN [k \in 1..Len(map) |->
             IF map[k].key = key THEN [key |-> key, val |-> val] ELSE map[k]]
    ELSE Append(map, [key |-> key, val |-> val])

MapValues(map) == [k \in 1..Len(map) |-> map[k].val]

\* mutant: a number token carries no weight
tokenWeight_NumbersFree(token) ==
    CASE token.op = "num" -> 0
      [] token.op = "^" -> 5
      [] token.op = "sqrt" -> 6
      [] token.op = "root" -> 7
      [] token.op = "!" -> 8
      [] OTHER -> 1

tokenWeight(token) ==
    CASE token.op = "^" -> 5
      [] token.op = "sqrt" -> 6
      [] token.op = "root" -> 7
      [] token.op = "!" -> 8
      [] OTHER -> 1                      \* complexity[token] || 1

RECURSIVE calculateScore(_)
calculateScore(rpn) ==
    IF Len(rpn) = 0 THEN 0
    ELSE tokenWeight(Head(rpn)) + calculateScore(Tail(rpn))

initialClosest ==
    [value |-> NegInfinity, distance |-> Infinity, rpn |-> undefined,
     type |-> "", sigma |-> noSigma, score |-> 0]

\* mutant: `<=` for `<`, a tie replaces closest
lessThan_OrEqual(a, b) == a # Infinity /\ (b = Infinity \/ a <= b)

\* a < b on distances, either of which may be Infinity
lessThan(a, b) == a # Infinity /\ (b = Infinity \/ a < b)

\* mutant: an exact candidate of lower score replaces the stored record
updateSolutions_BestScoreWins(t, target, value, rpn, type, sigmaData) ==
    LET distance == IF value = Infinity THEN Infinity
                    ELSE IF value >= target THEN value - target
                    ELSE target - value
        newClosest == lessThan(distance, t.closest.distance)
        stored == t.solutions[CHOOSE k \in 1..Len(t.solutions) :
                                  t.solutions[k].key = value].val
        newExact == /\ value = target
                    /\ \/ ~MapHas(t.solutions, value)
                       \/ calculateScore(rpn) < stored.score
    IN IF t.threw THEN t
       ELSE IF (newClosest \/ newExact) /\ rpn = undefined
       THEN [t EXCEPT !.threw = TRUE]
       ELSE [solutions |->
                 IF newExact
                 THEN MapSet(t.solutions, value,
                             [value |-> value, rpn |-> rpn, type |-> type,
                              sigma |-> sigmaData,
                              score |-> calculateScore(rpn)])
                 ELSE t.solutions,
             closest |->
                 IF newClosest
                 THEN [value |-> value, distance |-> distance, rpn |-> rpn,
                       type |-> type, sigma |-> sigmaData,
                       score |-> calculateScore(rpn)]
                 ELSE t.closest,
             threw |-> FALSE]

(***************************************************************************)
(* updateSolutions on the tracker t = [solutions, closest, threw].         *)
(* rpnToInfix(undefined) throws a TypeError (`for ... of undefined`)       *)
(* before anything is assigned.                                            *)
(***************************************************************************)
updateSolutions(t, target, value, rpn, type, sigmaData) ==
    LET distance == IF value = Infinity THEN Infinity
                    ELSE IF value >= target THEN value - target
                    ELSE target - value
        newClosest == lessThan(distance, t.closest.distance)
        newExact == value = target /\ ~MapHas(t.solutions, value)
    IN IF t.threw THEN t
       ELSE IF (newClosest \/ newExact) /\ rpn = undefined
       THEN [t EXCEPT !.threw = TRUE]
       ELSE [solutions |->
                 IF newExact
                 THEN MapSet(t.solutions, value,
                             [value |-> value, rpn |-> rpn, type |-> type,
                              sigma |-> sigmaData,
                              score |-> calculateScore(rpn)])
                 ELSE t.solutions,
             closest |->
                 IF newClosest
                 THEN [value |-> value, distance |-> distance, rpn |-> rpn,
                       type |-> type, sigma |-> sigmaData,
                       score |-> calculateScore(rpn)]
                 ELSE t.closest,
             threw |-> FALSE]

\* subSolutions.exactSolutions.forEach(s => updateSolutions(...))
RECURSIVE mergeExact(_, _, _)
mergeExact(t, target, exact) ==
    IF Len(exact) = 0 THEN t
    ELSE mergeExact(updateSolutions(t, target, exact[1].value, exact[1].rpn,
                                    exact[1].type, exact[1].sigma),
                    target, Tail(exact))

\* .sort((a,b) => a.score - b.score): a stable sort
RECURSIVE insertByScore(_, _)
insertByScore(sorted, s) ==
    IF Len(sorted) = 0 THEN <<s>>
    ELSE IF sorted[Len(sorted)].score <= s.score THEN Append(sorted, s)
    ELSE Append(insertByScore(SubSeq(sorted, 1, Len(sorted) - 1), s),
                sorted[Len(sorted)])

RECURSIVE sortByScore(_)
sortByScore(seq) ==
    IF Len(seq) = 0 THEN <<>>
    ELSE insertByScore(sortByScore(SubSeq(seq, 1, Len(seq) - 1)), seq[Len(seq)])

RECURSIVE filterTarget(_, _)
filterTarget(seq, target) ==
    IF Len(seq) = 0 THEN <<>>
    ELSE (IF Head(seq).value = target THEN <<Head(seq)>> ELSE <<>>)
             \o filterTarget(Tail(seq), target)

slice(seq, n) == SubSeq(seq, 1, IF Len(seq) < n THEN Len(seq) ELSE n)

nullClosest ==
    [value |-> null, distance |-> null, rpn |-> undefined,
     type |-> "null", sigma |-> noSigma, score |-> 0]

\* mutant: without an exact solution the closest candidate is listed instead
distill_ClosestAsExact(solutions, closest, target) ==
    LET exact == slice(sortByScore(filterTarget(MapValues(solutions), target)),
                       MaxExact)
    IN [exactSolutions |->
            IF Len(exact) = 0 /\ closest.distance # Infinity
            THEN <<[value |-> closest.value, rpn |-> closest.rpn,
                    type |-> closest.type, sigma |-> closest.sigma,
                    score |-> closest.score]>>
            ELSE exact,
        closest |-> IF closest.distance # Infinity THEN closest ELSE nullClosest]

\* the final distillation and the returned Result
distill(solutions, closest, target) ==
    [exactSolutions |->
         slice(sortByScore(filterTarget(MapValues(solutions), target)), MaxExact),
     closest |-> IF closest.distance # Infinity THEN closest ELSE nullClosest]

(***************************************************************************)
(* History of one invocation: a summary of the calls of updateSolutions    *)
(* that have completed.  n counts them, distance is the least              *)
(* |value - target| among them, value and rpn are those of the earliest    *)
(* call at that distance, and ties tells that a later call had the same    *)
(* distance; exact counts the calls with value = target and cheapest is    *)
(* the least score of their rpn.  The summary is computed from the list of *)
(* calls alone.                                                            *)
(***************************************************************************)
noCalls ==
    [n |-> 0, distance |-> Infinity, value |-> NegInfinity, rpn |-> undefined,
     ties |-> FALSE, exact |-> 0, cheapest |-> Infinity]

Distance(value, target) ==
    IF value = Infinity THEN Infinity
    ELSE IF value >= target THEN value - target ELSE target - value

\* the least element of a set of numbers, Infinity being above them all
Least(values) ==
    LET finite == {d \in values : d # Infinity}
    IN IF finite = {} THEN Infinity
       ELSE CHOOSE m \in finite : \A d \in finite : m <= d

noteCalls(h, target, calls) ==
    LET dist(k) == Distance(calls[k].value, target)
        m == Least({h.distance} \cup {dist(k) : k \in 1..Len(calls)})
        atMin == {k \in 1..Len(calls) : dist(k) = m}
        first == CHOOSE i \in atMin : \A j \in atMin : i <= j
        hits == {k \in 1..Len(calls) : calls[k].value = target}
        scores == {calculateScore(calls[k].rpn) :
                      k \in {i \in hits : calls[i].rpn # undefined}}
    IN [n |-> h.n + Len(calls),
        distance |-> m,
        value |-> IF m = h.distance THEN h.value ELSE calls[first].value,
        rpn |-> IF m = h.distance THEN h.rpn ELSE calls[first].rpn,
        ties |-> IF m = h.distance
                 THEN h.ties \/ (m # Infinity /\ atMin # {})
                 ELSE Cardinality(atMin) > 1,
        exact |-> h.exact + Cardinality(hits),
        cheapest |-> Least({h.cheapest} \cup scores)]

\* the calls updateSolutions(value, rpn, 'normal') one operator assignment makes
RECURSIVE callsOf(_)
callsOf(rpns) ==
    IF Len(rpns) = 0 THEN <<>>
    ELSE LET value == evaluateRPN(Head(rpns))
         IN (IF value # null THEN <<[value |-> value, rpn |-> Head(rpns)]>>
             ELSE <<>>) \o callsOf(Tail(rpns))

\* the calls a forEach over a sub-search's exactSolutions makes
callsOfMerge(exact) ==
    [k \in 1..Len(exact) |-> [value |-> exact[k].value, rpn |-> exact[k].rpn]]

(***************************************************************************)
(* findSolutions as a state machine.  A frame is one invocation: its       *)
(* arguments, its closure state (operators, numPermutations, solutions,    *)
(* closest) and its position: pc with the loop variables pi (permutation), *)
(* ci (operator assignment), ui (unary position i), tempP, and sp, si, sj, *)
(* sum of the sigma loops.  Indices of sequences are 1-based.  `passed` is *)
(* the history of the frame's updateSolutions calls.                       *)
(***************************************************************************)
noResult == [exactSolutions |-> <<>>, closest |-> nullClosest]

newFrame(numbers, target, level) ==
    [numbers |-> numbers, target |-> target, level |-> level,
     operators |-> opsByLevel(level),
     perms |-> numPermutations(numbers),
     solutions |-> <<>>, closest |-> initialClosest,
     pc |-> "enum", pi |-> 1, ci |-> 0, ui |-> 1, tempP |-> <<>>,
     sp |-> 1, si |-> 1, sj |-> 1, sum |-> 0,
     passed |-> noCalls]

Top == callStack[Len(callStack)]
SetTop(f) == [callStack EXCEPT ![Len(callStack)] = f]

tracker(f) == [solutions |-> f.solutions, closest |-> f.closest, threw |-> FALSE]
withTracker(f, t) == [f EXCEPT !.solutions = t.solutions, !.closest = t.closest]

\* A nested findSolutions(numbers, target, level) made by the frame `caller`;
\* the engine's call callStack is finite and overflows with a RangeError.
call(caller, numbers, level) ==
    IF Len(callStack) >= MaxCallDepth
    THEN /\ outcome' = "RangeError"
         /\ UNCHANGED <<callStack, ret, topResult>>
    ELSE /\ callStack' = Append(SetTop(caller),
                            newFrame(numbers, caller.target, level))
         /\ UNCHANGED <<outcome, ret, topResult>>

\* where control goes after the sigma block's guard
afterPerms(f) ==
    IF levelIs3(f.level)
    THEN [f EXCEPT !.pc = "sigma", !.sp = 1, !.si = 1, !.sj = 1]
    ELSE [f EXCEPT !.pc = "distill"]

\* the end of one iteration of `for (const p of numPermutations)`
nextPerm(f) ==
    IF f.pi < Len(f.perms)
    THEN [f EXCEPT !.pc = "enum", !.pi = f.pi + 1, !.ci = 0]
    ELSE afterPerms(f)

\* after the operator assignments of p: `if (level >= 2)`
afterCombos(f) ==
    IF levelAtLeast2(f.level)
    THEN [f EXCEPT !.pc = "sqrt", !.ui = 1]
    ELSE nextPerm(f)

\* the end of one iteration of `for (let i = 0; i < p.length; i++)`
nextUnary(f) ==
    IF f.ui < Len(f.perms[f.pi])
    THEN [f EXCEPT !.pc = "sqrt", !.ui = f.ui + 1]
    ELSE nextPerm(f)

\* the end of one iteration of the innermost sigma loop
nextSigma(f) ==
    LET n == Len(f.perms[f.sp])
    IN IF f.sj < n THEN [f EXCEPT !.pc = "sigma", !.sj = f.sj + 1]
       ELSE IF f.si < n
       THEN [f EXCEPT !.pc = "sigma", !.si = f.si + 1, !.sj = 1]
       ELSE IF f.sp < Len(f.perms)
       THEN [f EXCEPT !.pc = "sigma", !.sp = f.sp + 1, !.si = 1, !.sj = 1]
       ELSE [f EXCEPT !.pc = "distill"]

numTokens(p) == [k \in 1..Len(p) |-> Num(p[k])]
opTokens(c) == [k \in 1..Len(c) |-> Op(c[k])]

\* the first candidate: `rpn = [...p]; for (const op of opCombo) rpn.push(op)`
firstCandidate(p, opCombo) == numTokens(p) \o opTokens(opCombo)

\* mutant: the balanced pair takes its last two operators in the other order
candidates_PairOperatorsSwapped(p, opCombo) ==
    <<firstCandidate(p, opCombo)>>
    \o (IF Len(p) = 4
        THEN << <<Num(p[1]), Num(p[2]), Op(opCombo[1]), Num(p[3]), Num(p[4]),
                  Op(opCombo[3]), Op(opCombo[2])>> >>
        ELSE <<>>)
    \o (IF Len(p) = 5
        THEN << <<Num(p[1]), Num(p[2]), Op(opCombo[1]), Num(p[3]), Num(p[4]),
                  Op(opCombo[2]), Op(opCombo[3]), Num(p[5]), Op(opCombo[4])>> >>
        ELSE <<>>)

\* the candidates built for one operator assignment, in order
candidates(p, opCombo) ==
    <<firstCandidate(p, opCombo)>>
    \o (IF Len(p) = 4
        THEN << <<Num(p[1]), Num(p[2]), Op(opCombo[1]), Num(p[3]), Num(p[4]),
                  Op(opCombo[2]), Op(opCombo[3])>> >>
        ELSE <<>>)
    \o (IF Len(p) = 5
        THEN << <<Num(p[1]), Num(p[2]), Op(opCombo[1]), Num(p[3]), Num(p[4]),
                  Op(opCombo[2]), Op(opCombo[3]), Num(p[5]), Op(opCombo[4])>> >>
        ELSE <<>>)

\* value = evaluateRPN(rpn); if (value !== null) updateSolutions(...)
RECURSIVE tryCandidates(_, _, _)
tryCandidates(t, target, rpns) ==
    IF Len(rpns) = 0 THEN t
    ELSE LET value == evaluateRPN(Head(rpns))
         IN tryCandidates(
                IF value # null
                THEN updateSolutions(t, target, value, Head(rpns), "normal", noSigma)
                ELSE t,
                target, Tail(rpns))

RECURSIVE sumRange(_, _)
sumRange(start, end) ==
    IF start > end THEN 0 ELSE start + sumRange(start + 1, end)

remaining(p, i, j) ==
    LET keep == {k \in 1..Len(p) : k # i /\ k # j}
        RECURSIVE pick(_)
        pick(k) == IF k > Len(p) THEN <<>>
                   ELSE (IF k \in keep THEN <<p[k]>> ELSE <<>>) \o pick(k + 1)
    IN pick(1)

\* mutant: the forEach body merges the sub-results as the unary pass does
sigmaForEach_Merging(t, target, exact) ==
    [mergeExact(t, target, exact) EXCEPT !.threw = FALSE]

\* subSolutions.exactSolutions.forEach(s => { if (s.value === target) { } }):
\* the body is empty, the tracker stays as it is
sigmaForEach(t, target, exact) == t

sigmaRecord(target, start, end) ==
    [value |-> target, rpn |-> undefined, type |-> "sigma",
     sigma |-> [start |-> start, end |-> end, body |-> "i"],
     score |-> SigmaScore]

(***************************************************************************)
(* The inputs of the outermost call.                                       *)
(***************************************************************************)
StringLevels == {StrLevel("B"), StrLevel("1"), StrLevel("2"), StrLevel("3")}
NumberLevels == {NumLevel("1"), NumLevel("2"), NumLevel("3")}
Levels == StringLevels \cup NumberLevels

ShortNumbers ==
    {<<>>} \cup {<<a>> : a \in 0..MaxNum}
           \cup {<<a, b>> : a \in 0..MaxNum, b \in 0..MaxNum}

Scenarios ==
    { [numbers |-> <<1, 2, 3, 4>>, target |-> 10, level |-> StrLevel("B")],
      [numbers |-> <<5, 3, 1>>, target |-> 1, level |-> StrLevel("B")],
      [numbers |-> <<2, 2, 3>>, target |-> 7, level |-> StrLevel("1")],
      [numbers |-> <<2, 8>>, target |-> 4, level |-> StrLevel("2")],
      [numbers |-> <<1, 2, 3, 4, 5>>, target |-> 15, level |-> StrLevel("B")],
      [numbers |-> <<1, 5, 9, 9>>, target |-> 15, level |-> StrLevel("3")],
      [numbers |-> <<9>>, target |-> 6, level |-> StrLevel("3")],
      [numbers |-> <<11, 13, 12>>, target |-> 48, level |-> NumLevel("3")],
      [numbers |-> <<11, 13, 12>>, target |-> 36, level |-> NumLevel("3")] }

Inputs ==
    [numbers : ShortNumbers, target : 0..MaxTarget, level : Levels]
        \cup Scenarios

Init ==
    /\ input = <<>>
    /\ callStack = <<>>
    /\ ret = noResult
    /\ outcome = "idle"
    /\ topResult = noResult
    /\ evRpn = <<>>
    /\ evPos = 0
    /\ evStack = <<>>
    /\ evPushed = <<>>
    /\ evShort = FALSE
    /\ evStatus = "idle"
    /\ evResult = null
    /\ evInfix = <<>>

\* the outermost call findSolutions(numbers, target, level)
Invoke ==
    /\ outcome = "idle"
    /\ \E in \in Inputs :
          /\ input' = in
          /\ callStack' = <<newFrame(in.numbers, in.target, in.level)>>
    /\ outcome' = "running"
    /\ UNCHANGED <<ret, topResult, evVars>>

Running == outcome = "running" /\ callStack # <<>>

\* one iteration of `for (const opCombo of opCombos)`
Enumerate ==
    /\ Running
    /\ Top.pc = "enum"
    /\ LET f == Top
           p == f.perms[f.pi]
           opCombo == opComboAt(f.operators, Len(p) - 1, f.ci)
           t == tryCandidates(tracker(f), f.target, candidates(p, opCombo))
           g == [withTracker(f, t) EXCEPT !.passed =
                    noteCalls(f.passed, f.target,
                              callsOf(candidates(p, opCombo)))]
       IN callStack' = SetTop(
              IF f.ci + 1 < opComboCount(f.operators, Len(p) - 1)
              THEN [g EXCEPT !.ci = f.ci + 1]
              ELSE afterCombos(g))
    /\ UNCHANGED <<input, ret, outcome, topResult, evVars>>

\* `let tempP = [...p]` and the sqrt substitution at position i
UnarySqrt ==
    /\ Running
    /\ Top.pc = "sqrt"
    /\ LET f == Top
           p == f.perms[f.pi]
           sqrtVal == sqrtInteger(p[f.ui])
       IN IF Includes(f.operators, "sqrt") /\ sqrtVal # null
          THEN LET tempP == [p EXCEPT ![f.ui] = sqrtVal]
               IN call([f EXCEPT !.pc = "sqrtMerge", !.tempP = tempP],
                       tempP, f.level)
          ELSE /\ callStack' = SetTop([f EXCEPT !.pc = "fact", !.tempP = p])
               /\ UNCHANGED <<ret, outcome, topResult>>
    /\ UNCHANGED <<input, evVars>>

\* the forEach over the sqrt sub-search's exactSolutions
MergeSqrt ==
    /\ Running
    /\ Top.pc = "sqrtMerge"
    /\ LET f == Top
           t == mergeExact(tracker(f), f.target, ret.exactSolutions)
       IN IF t.threw
          THEN outcome' = "TypeError" /\ UNCHANGED callStack
          ELSE /\ callStack' = SetTop(
                      [withTracker(f, t) EXCEPT
                          !.pc = "fact",
                          !.passed = noteCalls(f.passed, f.target,
                                         callsOfMerge(ret.exactSolutions))])
               /\ UNCHANGED outcome
    /\ UNCHANGED <<input, ret, topResult, evVars>>

\* the factorial substitution at position i, on tempP as sqrt left it
UnaryFact ==
    /\ Running
    /\ Top.pc = "fact"
    /\ LET f == Top
           factVal == factorial(f.tempP[f.ui])
       IN IF Includes(f.operators, "!") /\ factVal # Infinity
          THEN LET tempP == [f.tempP EXCEPT ![f.ui] = factVal]
               IN call([f EXCEPT !.pc = "factMerge", !.tempP = tempP],
                       tempP, f.level)
          ELSE /\ callStack' = SetTop(nextUnary(f))
               /\ UNCHANGED <<ret, outcome, topResult>>
    /\ UNCHANGED <<input, evVars>>

\* the forEach over the factorial sub-search's exactSolutions
MergeFact ==
    /\ Running
    /\ Top.pc = "factMerge"
    /\ LET f == Top
           t == mergeExact(tracker(f), f.target, ret.exactSolutions)
       IN IF t.threw
          THEN outcome' = "TypeError" /\ UNCHANGED callStack
          ELSE /\ callStack' = SetTop(nextUnary(
                      [withTracker(f, t) EXCEPT !.passed =
                          noteCalls(f.passed, f.target,
                                    callsOfMerge(ret.exactSolutions))]))
               /\ UNCHANGED outcome
    /\ UNCHANGED <<input, ret, topResult, evVars>>

\* one iteration of the sigma loops, up to the nested call
SigmaStep ==
    /\ Running
    /\ Top.pc = "sigma"
    /\ LET f == Top
           p == f.perms[f.sp]
           start == p[f.si]
           end == p[f.sj]
       IN IF f.si = f.sj \/ start >= end \/ end - start > SigmaRange
          THEN /\ callStack' = SetTop(nextSigma(f))
               /\ UNCHANGED <<ret, outcome, topResult>>
          ELSE LET sum == sumRange(start, end)
                   newNums == Append(remaining(p, f.si, f.sj), sum)
               IN call([f EXCEPT !.pc = "sigmaRet", !.sum = sum],
                       newNums, minLevel2(f.level))
    /\ UNCHANGED <<input, evVars>>

\* after the nested call: the forEach with the empty body, and the insert
SigmaInsert ==
    /\ Running
    /\ Top.pc = "sigmaRet"
    /\ LET f == Top
           p == f.perms[f.sp]
           h == withTracker(f, sigmaForEach(tracker(f), f.target,
                                            ret.exactSolutions))
           g == IF f.sum = f.target
                THEN [h EXCEPT !.solutions =
                         MapSet(h.solutions, f.target,
                                sigmaRecord(f.target, p[f.si], p[f.sj]))]
                ELSE h
       IN callStack' = SetTop(nextSigma(g))
    /\ UNCHANGED <<input, ret, outcome, topResult, evVars>>

\* the final distillation and `return`
Return ==
    /\ Running
    /\ Top.pc = "distill"
    /\ LET f == Top
           r == distill(f.solutions, f.closest, f.target)
       IN /\ ret' = r
          /\ callStack' = Pop(callStack, 1)
          /\ IF Len(callStack) = 1
             THEN outcome' = "returned" /\ topResult' = r
             ELSE UNCHANGED <<outcome, topResult>>
    /\ UNCHANGED <<input, evVars>>

Next ==
    \/ Invoke
    \/ Enumerate
    \/ UnarySqrt
    \/ MergeSqrt
    \/ UnaryFact
    \/ MergeFact
    \/ SigmaStep
    \/ SigmaInsert
    \/ Return

Spec == Init /\ [][Next]_vars

(***************************************************************************)
(* The evaluator as a state machine: one step per token, then the return.  *)
(***************************************************************************)
EvalNums == {0, 1, 2, 4, 8, 11}

EvalTokens ==
    {Num(n) : n \in EvalNums} \cup {Op(AllOps[k]) : k \in 1..Len(AllOps)}

RpnInputs ==
    UNION {[1..len -> EvalTokens] : len \in 0..MaxRpnLen}

InitEval ==
    /\ input = <<>>
    /\ callStack = <<>>
    /\ ret = noResult
    /\ outcome = "off"
    /\ topResult = noResult
    /\ evRpn \in RpnInputs
    /\ evPos = 0
    /\ evStack = <<>>
    /\ evPushed = <<>>
    /\ evShort = FALSE
    /\ evStatus = "running"
    /\ evResult = null
    /\ evInfix = <<>>

\* One iteration of the for-loop that does not return.
EvalStep ==
    /\ evStatus = "running"
    /\ evPos < Len(evRpn)
    /\ LET s == evalToken(evStack, evRpn[evPos + 1])
       IN /\ s.ok
          /\ evStack' = s.stack
          /\ evPushed' = evPushed \o s.pushed
          /\ evPos' = evPos + 1
    /\ UNCHANGED <<evRpn, evShort, evStatus, evResult, evInfix>>
    /\ UNCHANGED fsVars

\* An iteration that executes one of the `return null` statements.
EvalReject ==
    /\ evStatus = "running"
    /\ evPos < Len(evRpn)
    /\ LET s == evalToken(evStack, evRpn[evPos + 1])
       IN /\ ~s.ok
          /\ evStack' = s.stack
          /\ evShort' = s.short
    /\ evStatus' = "returned"
    /\ evResult' = null
    /\ UNCHANGED <<evRpn, evPos, evPushed, evInfix>>
    /\ UNCHANGED fsVars

\* After the loop: the final stack check and the return.
EvalReturn ==
    /\ evStatus = "running"
    /\ evPos = Len(evRpn)
    /\ evStatus' = "returned"
    /\ evResult' = finalValue(evStack)
    /\ UNCHANGED <<evRpn, evPos, evStack, evPushed, evShort, evInfix>>
    /\ UNCHANGED fsVars

\* rpnToInfix(rpn) on an expression evaluateRPN returned a value for, as
\* updateSolutions calls it
EvalRender ==
    /\ evStatus = "returned"
    /\ evResult # null
    /\ evInfix = <<>>
    /\ evInfix' = rpnToInfix(evRpn)
    /\ UNCHANGED <<evRpn, evPos, evStack, evPushed, evShort, evStatus,
                   evResult>>
    /\ UNCHANGED fsVars

NextEval == EvalStep \/ EvalReject \/ EvalReturn \/ EvalRender

SpecEval == InitEval /\ [][NextEval]_vars

(***************************************************************************)
(* Properties.                                                             *)
(***************************************************************************)
Started == outcome # "idle" /\ outcome # "off"
Returned == outcome = "returned"
Exact == topResult.exactSolutions

\* some active call has the arguments of a call that encloses it
RepeatedCall ==
    \E i, j \in 1..Len(callStack) :
        /\ i < j
        /\ callStack[i].numbers = callStack[j].numbers
        /\ callStack[i].level = callStack[j].level

\* C1: for every input with a string level, findSolutions returns a Result:
\* no nested call repeats the arguments of an enclosing call, the call chain
\* never overflows the stack, and no exception ends the call.
C1_TerminatesWithResult ==
    (Started /\ input.level \in StringLevels) =>
        /\ outcome # "RangeError"
        /\ outcome # "TypeError"
        /\ ~RepeatedCall

EvalReturned == evStatus = "returned"
PushedValues == {evPushed[k] : k \in 1..Len(evPushed)}

\* C2: once factorial has produced the unbounded sentinel in an evaluation,
\* evaluateRPN returns null, and it never returns the sentinel itself.
C2_UnboundedFactorialFails ==
    EvalReturned =>
        /\ evResult # Infinity
        /\ (Infinity \in PushedValues => evResult = null)

IsNonNegativeInteger(v) == IsInteger(v) /\ v >= 0

\* C3: when evaluateRPN accepts an expression, every value it pushed and the
\* value it returns is a finite non-negative integer.
C3_AcceptedValuesNonNegativeIntegers ==
    (EvalReturned /\ evResult # null) =>
        /\ IsNonNegativeInteger(evResult)
        /\ \A v \in PushedValues : IsNonNegativeInteger(v)

\* the for-loop ran to its end (no `return null` inside it)
LoopCompleted == EvalReturned /\ evPos = Len(evRpn)

\* C4: evaluateRPN returns null whenever an operator found too few operands
\* ('!' and 'sqrt' need 1, the others 2) or the stack does not hold exactly
\* one value after the last token; the empty sequence included.
C4_ShortageYieldsNull ==
    EvalReturned =>
        /\ (evShort => evResult = null)
        /\ (LoopCompleted /\ Len(evStack) # 1 => evResult = null)
        /\ (evRpn = <<>> => evResult = null)

C4_Witness ==
    /\ EvalReturned
    /\ evShort
    /\ Len(evStack) = 1
    /\ evResult = null

\* the pairs (start, end) of two distinct positions of the permutations of
\* `numbers` that the summation extension accepts and that sum to `target`
SigmaPairs(numbers, target) ==
    {pr \in {<<numbers[i], numbers[j]>> :
                 i \in 1..Len(numbers), j \in 1..Len(numbers)} :
        /\ \E i, j \in 1..Len(numbers) :
              i # j /\ pr = <<numbers[i], numbers[j]>>
        /\ pr[1] < pr[2]
        /\ pr[2] - pr[1] <= SigmaRange
        /\ sumRange(pr[1], pr[2]) = target}

HasSigmaRecord(exact, pairs) ==
    \E k \in 1..Len(exact) :
        /\ exact[k].type = "sigma"
        /\ exact[k].score = SigmaScore
        /\ exact[k].sigma.body = "i"
        /\ <<exact[k].sigma.start, exact[k].sigma.end>> \in pairs

\* C5: at level "3", when two input numbers are the ends of a range of at
\* most 21 consecutive integers summing to the target, exactSolutions holds
\* the sigma record of such a range, with the fixed score.
C5_SigmaRecordAtLevel3 ==
    (Returned /\ input.level = StrLevel("3")
        /\ SigmaPairs(input.numbers, input.target) # {}) =>
        HasSigmaRecord(Exact, SigmaPairs(input.numbers, input.target))

AfterSigmaSearch == Running /\ Top.pc = "sigmaRet"

RECURSIVE leftFold(_, _, _)
leftFold(p, opCombo, k) ==
    IF k > Len(p) THEN <<>>
    ELSE (IF k = 1 THEN <<Num(p[1])>> ELSE <<Num(p[k]), Op(opCombo[k - 1])>>)
             \o leftFold(p, opCombo, k + 1)

AllPlus1234 ==
    <<Num(1), Num(2), Op("+"), Num(3), Op("+"), Num(4), Op("+")>>

\* C7: the first candidate built for a permutation and an operator
\* assignment is the left fold; and numbers [1,2,3,4], target 10, level "B"
\* give the exact record [1,2,"+",3,"+",4,"+"].
C7_LeftFoldFirst ==
    /\ (Running /\ Top.pc = "enum") =>
          LET p == Top.perms[Top.pi]
              opCombo == opComboAt(Top.operators, Len(p) - 1, Top.ci)
          IN firstCandidate(p, opCombo) = leftFold(p, opCombo, 1)
    /\ (Returned /\ input.numbers = <<1, 2, 3, 4>> /\ input.target = 10
           /\ input.level = StrLevel("B")) =>
          \E k \in 1..Len(Exact) :
              Exact[k].rpn = AllPlus1234 /\ Exact[k].value = 10

PairSum ==
    /\ Returned
    /\ input.level = StrLevel("B")
    /\ Len(input.numbers) = 2
    /\ input.numbers[1] + input.numbers[2] = input.target

SingleExact ==
    /\ Returned
    /\ input.level = StrLevel("B")
    /\ Len(input.numbers) = 1
    /\ input.numbers[1] = input.target

Scenario1234 ==
    /\ Returned
    /\ input.numbers = <<1, 2, 3, 4>>
    /\ input.target = 10
    /\ input.level = StrLevel("B")

HasRecord(exact, rpn, value, score) ==
    \E k \in 1..Len(exact) :
        exact[k].rpn = rpn /\ exact[k].value = value /\ exact[k].score = score

PairPlus == <<Num(input.numbers[1]), Num(input.numbers[2]), Op("+")>>

\* C8: [a,b] with a + b = target at level "B" gives the exact record
\* [a,b,"+"] with score 2; the 7-token all-plus solution of [1,2,3,4] has
\* score 4; the single-token [n] has score 1.
C8_NumbersWeighNothing ==
    /\ PairSum => HasRecord(Exact, PairPlus, input.target, 2)
    /\ Scenario1234 =>
          \E k \in 1..Len(Exact) : Len(Exact[k].rpn) = 7 /\ Exact[k].score = 4
    /\ SingleExact => HasRecord(Exact, <<Num(input.target)>>, input.target, 1)

\* C8 (amended): every token, number or operator of level "B", weighs 1:
\* [a,b] with a + b = target gives the exact record [a,b,"+"] with score 3,
\* the 7-token all-plus solution of [1,2,3,4] has score 7, and the
\* single-token [n] has score 1.
C8_ScoreCountsTokens ==
    /\ PairSum => HasRecord(Exact, PairPlus, input.target, 3)
    /\ Scenario1234 =>
          /\ Len(Exact) = 1
          /\ Len(Exact[1].rpn) = 7
          /\ \A k \in 1..7 : Exact[1].rpn[k].op \in {"num", "+"}
          /\ Exact[1].score = 7
    /\ SingleExact => HasRecord(Exact, <<Num(input.target)>>, input.target, 1)

C8_Witness ==
    /\ PairSum
    /\ input.numbers[1] # input.numbers[2]
    /\ HasRecord(Exact, PairPlus, input.target, 3)

ClosestIsRecord(r, s) ==
    /\ r.closest # nullClosest
    /\ r.closest.distance = 0
    /\ r.closest.value = s.value
    /\ r.closest.rpn = s.rpn
    /\ r.closest.score = s.score

SingleNumberResult ==
    SingleExact =>
        /\ Len(Exact) = 1
        /\ Exact[1].rpn = <<Num(input.target)>>
        /\ Exact[1].score = 1
        /\ ClosestIsRecord(topResult, Exact[1])

\* a Result handed back by a call that has returned (nested or outermost)
ResultReturned == Started /\ ret # noResult

\* C9: a Result with a non-empty exactSolutions has a closest of distance
\* 0 and value = target that is the stored exact record (same rpn, same
\* score); [n] with target n at level "B" gives exactly the record [n] with
\* score 1, and closest is that record.
C9_ClosestIsTheExactRecord ==
    /\ (ResultReturned /\ ret.exactSolutions # <<>>) =>
          /\ ClosestIsRecord(ret, ret.exactSolutions[1])
          /\ Started => ret.closest.value = input.target
    /\ SingleNumberResult

\* C9 (amended): the same, for a Result whose exact record is of type
\* "normal" (stored by updateSolutions); a sigma record inserted directly by
\* the summation extension leaves closest as it was.
C9_ClosestIsTheNormalExactRecord ==
    /\ \A k \in 1..Len(ret.exactSolutions) :
          ret.exactSolutions[k].type = "normal" =>
              /\ ClosestIsRecord(ret, ret.exactSolutions[k])
              /\ Started => ret.closest.value = input.target
    /\ SingleNumberResult

\* an exact record found after other candidates had been closest
C9_Witness ==
    /\ Returned
    /\ Len(Exact) = 1
    /\ Exact[1].type = "normal"
    /\ Len(Exact[1].rpn) = 3
    /\ Exact[1].rpn[3].op # "+"
    /\ ClosestIsRecord(topResult, Exact[1])

SortedByScore(seq) ==
    \A k \in 1..(Len(seq) - 1) : seq[k].score <= seq[k + 1].score

\* C10: in every Result, exactSolutions has at most 3 records, each with
\* value = target, in order of non-decreasing score.
C10_ExactSolutionsShape ==
    Started =>
        /\ Len(ret.exactSolutions) <= MaxExact
        /\ \A k \in 1..Len(ret.exactSolutions) :
              ret.exactSolutions[k].value = input.target
        /\ SortedByScore(ret.exactSolutions)

C10_Witness ==
    /\ Returned
    /\ Len(Exact) = 1
    /\ Exact = ret.exactSolutions
    /\ Exact[1].value = input.target

\* C11: in every invocation, closest is the candidate of least
\* |value - target| among the candidates passed to updateSolutions so far,
\* and among those of that distance the one passed earliest; it is the
\* initial record while no candidate has been passed.
C11_ClosestIsEarliestMinimum ==
    \A k \in 1..Len(callStack) :
        LET f == callStack[k]
        IN /\ f.closest.distance = f.passed.distance
           /\ f.closest.value = f.passed.value
           /\ f.closest.rpn = f.passed.rpn
           /\ (f.passed.n = 0 => f.closest = initialClosest)

\* a later candidate tied with closest at a distance above 0 and was ignored
C11_Witness ==
    /\ Running
    /\ Top.passed.ties
    /\ Top.passed.distance > 0
    /\ Top.passed.n > 2
    /\ Top.closest.rpn = Top.passed.rpn

\* the orderings of the multiset of `numbers`, as a set of sequences
Orderings(numbers) ==
    {[k \in 1..Len(numbers) |-> numbers[sigma[k]]] :
         sigma \in Permutations(1..Len(numbers))}

\* an invocation that has just been entered: numPermutations is computed
Entered == Running /\ Top.pc = "enum" /\ Top.pi = 1 /\ Top.ci = 0

\* C12: for every input number sequence, numPermutations holds every
\* distinct ordering of the input multiset exactly once: no two elements are
\* equal, each element is an ordering, and each ordering is an element;
\* [2,2,3] gives exactly 3 orderings.
C12_DistinctOrderingsOnce ==
    Entered =>
        LET perms == Top.perms
        IN /\ \A i, j \in 1..Len(perms) : i # j => perms[i] # perms[j]
           /\ {perms[k] : k \in 1..Len(perms)} = Orderings(Top.numbers)
           /\ (Top.numbers = <<2, 2, 3>> => Len(perms) = 3)

\* an evaluation of [a, b, "/"] that has returned
DivisionReturned ==
    /\ EvalReturned
    /\ Len(evRpn) = 3
    /\ IsNumber(evRpn[1])
    /\ IsNumber(evRpn[2])
    /\ evRpn[3] = Op("/")

\* C13: for non-negative integers a and b, evaluateRPN([a, b, "/"]) returns
\* the q with q * b = a when b # 0 and b divides a, and null otherwise.
C13_DivisionExactOrNull ==
    DivisionReturned =>
        LET a == evRpn[1].n
            b == evRpn[2].n
        IN IF b # 0 /\ \E q \in 0..a : q * b = a
           THEN evResult # null /\ evResult * b = a
           ELSE evResult = null

C13_Witness ==
    /\ DivisionReturned
    /\ evRpn[1].n = 8
    /\ evRpn[2].n = 2
    /\ evResult = 4

(***************************************************************************)
(* A reader of infix strings with the stated precedences (+ - 1, * / 2,    *)
(* ^ root 3, numbers, parenthesized and unary results 4), every binary     *)
(* operator left associative, '!' postfix on the primary before it,        *)
(* "sqrt(e)" a primary and "d root r" the d-th root of r.  It gives the    *)
(* expression read as an RPN sequence, which evaluateRPN then values.      *)
(***************************************************************************)
Digits == {Digit(d) : d \in 0..9}

RECURSIVE lexNumber(_, _)
lexNumber(chars, acc) ==
    IF Len(chars) > 0 /\ Head(chars) \in Digits
    THEN lexNumber(Tail(chars), acc * 10 + DigitValue(Head(chars)))
    ELSE [n |-> acc, rest |-> chars]

RECURSIVE lex(_)
lex(chars) ==
    IF Len(chars) = 0 THEN <<>>
    ELSE IF Head(chars) = " " THEN lex(Tail(chars))
    ELSE IF Head(chars) \in Digits
    THEN LET num == lexNumber(chars, 0) IN <<Num(num.n)>> \o lex(num.rest)
    ELSE IF Len(chars) >= 4 /\ SubSeq(chars, 1, 4) = <<"s", "q", "r", "t">>
    THEN <<Op("sqrt")>> \o lex(SubSeq(chars, 5, Len(chars)))
    ELSE IF Len(chars) >= 4 /\ SubSeq(chars, 1, 4) = <<"r", "o", "o", "t">>
    THEN <<Op("root")>> \o lex(SubSeq(chars, 5, Len(chars)))
    ELSE <<Op(Head(chars))>> \o lex(Tail(chars))

parseFailure == [ok |-> FALSE, rpn |-> <<>>, pos |-> 0]

IsLexeme(lx, i, s) == i <= Len(lx) /\ lx[i] = Op(s)

RECURSIVE parsePostfix(_, _, _)
RECURSIVE parsePrimary(_, _)
RECURSIVE parseClimb(_, _, _, _)
RECURSIVE parseExpr(_, _, _)

\* any number of '!' after a primary
parsePostfix(lx, i, rpn) ==
    IF IsLexeme(lx, i, "!")
    THEN parsePostfix(lx, i + 1, Append(rpn, Op("!")))
    ELSE [ok |-> TRUE, rpn |-> rpn, pos |-> i]

\* a number, "(" e ")" or "sqrt(" e ")", with its postfix operators
parsePrimary(lx, i) ==
    IF i > Len(lx) THEN parseFailure
    ELSE IF IsNumber(lx[i]) THEN parsePostfix(lx, i + 1, <<lx[i]>>)
    ELSE IF lx[i] = Op("(")
    THEN LET e == parseExpr(lx, i + 1, 1)
         IN IF e.ok /\ IsLexeme(lx, e.pos, ")")
            THEN parsePostfix(lx, e.pos + 1, e.rpn)
            ELSE parseFailure
    ELSE IF lx[i] = Op("sqrt") /\ IsLexeme(lx, i + 1, "(")
    THEN LET e == parseExpr(lx, i + 2, 1)
         IN IF e.ok /\ IsLexeme(lx, e.pos, ")")
            THEN parsePostfix(lx, e.pos + 1, Append(e.rpn, Op("sqrt")))
            ELSE parseFailure
    ELSE parseFailure

\* left associativity: the right operand holds only tighter operators
parseClimb(lx, i, lhs, minPrec) ==
    IF i <= Len(lx) /\ precedence(lx[i].op) > 0
           /\ precedence(lx[i].op) >= minPrec
    THEN LET op == lx[i].op
             rhs == parseExpr(lx, i + 1, precedence(op) + 1)
         IN IF rhs.ok
            THEN parseClimb(lx, rhs.pos,
                     IF op = "root"
                     THEN rhs.rpn \o lhs \o <<Op("root")>>
                     ELSE lhs \o rhs.rpn \o <<Op(op)>>,
                     minPrec)
            ELSE parseFailure
    ELSE [ok |-> TRUE, rpn |-> lhs, pos |-> i]

parseExpr(lx, i, minPrec) ==
    LET lhs == parsePrimary(lx, i)
    IN IF lhs.ok THEN parseClimb(lx, lhs.pos, lhs.rpn, minPrec)
       ELSE parseFailure

\* the value of an infix string, null when it cannot be read or valued
infixValue(chars) ==
    LET lx == lex(chars)
        e == parseExpr(lx, 1, 1)
    IN IF e.ok /\ e.pos = Len(lx) + 1 THEN evaluateRPN(e.rpn) ELSE null

Rendered == evStatus = "returned" /\ evInfix # <<>>

\* C14: for every RPN expression evaluateRPN accepts, the string rpnToInfix
\* makes of it, read with the stated precedences and left associativity,
\* has the value evaluateRPN gave; '!' on a compound operand included.
C14_RenderRoundTrip ==
    Rendered => infixValue(evInfix) = evResult

\* a nested search has just been entered from the unary pass at `pc`
UnaryCallEntered(pc) ==
    /\ Entered
    /\ Len(callStack) >= 2
    /\ callStack[Len(callStack) - 1].pc = pc

\* the permutation and position of the unary pass that made the call
CallerP == LET c == callStack[Len(callStack) - 1] IN c.perms[c.pi]
CallerI == callStack[Len(callStack) - 1].ui

\* C15: in the unary pass, the factorial sub-search for permutation p and
\* position i is entered on p with p[i] replaced by factorial(p[i]) of the
\* original number, a finite one, whether or not sqrt succeeded at i; and
\* the sqrt sub-search on p with p[i] replaced by its integer square root.
C15_FactorialOfOriginalNumber ==
    /\ UnaryCallEntered("factMerge") =>
          /\ factorial(CallerP[CallerI]) # Infinity
          /\ Top.numbers =
                 [CallerP EXCEPT ![CallerI] = factorial(CallerP[CallerI])]
    /\ UnaryCallEntered("sqrtMerge") =>
          /\ sqrtInteger(CallerP[CallerI]) # null
          /\ Top.numbers =
                 [CallerP EXCEPT ![CallerI] = sqrtInteger(CallerP[CallerI])]

\* the record the solutions map of frame f holds for the target
StoredExact(f) ==
    f.solutions[CHOOSE k \in 1..Len(f.solutions) :
                    f.solutions[k].key = f.target].val

\* the frames that are on the call stack before and after a step
Persisting ==
    {k \in 1..Len(callStack) : k <= Len(callStack') }

\* C16: once an invocation's solutions map holds an exact record for the
\* target, no step removes it, and every step leaves it unchanged, calls of
\* updateSolutions with value = target included (from the enumeration or a
\* merge, whatever their score); only the direct insert of the summation
\* extension replaces it, by its sigma record.
C16_FirstFoundWins ==
    [][\A k \in Persisting :
          LET f == callStack[k]
              g == callStack'[k]
          IN MapHas(f.solutions, f.target) =>
                /\ MapHas(g.solutions, f.target)
                /\ \/ g.solutions = f.solutions
                   \/ /\ f.pc = "sigmaRet"
                      /\ f.sum = f.target
                      /\ StoredExact(g).type = "sigma"]_vars

\* a later call with value = target and a lower score was ignored
C16_Witness ==
    /\ Running
    /\ MapHas(Top.solutions, Top.target)
    /\ Top.passed.exact >= 2
    /\ StoredExact(Top).type = "normal"
    /\ Top.passed.cheapest < StoredExact(Top).score

\* the value of (l op r), undefined (null) when an operand is
Apply(op, l, r) == IF l = null \/ r = null THEN null ELSE evalBinary(op, l, r)

\* the enumeration is at a permutation of length 4
AtFour == Running /\ Top.pc = "enum" /\ Len(Top.perms[Top.pi]) = 4

FourP == Top.perms[Top.pi]
FourOps == opComboAt(Top.operators, 3, Top.ci)

\* the balanced-pair candidate, the second one built for the assignment
BalancedValue == evaluateRPN(candidates(FourP, FourOps)[2])

\* C17: for a permutation (a,b,c,d) and an operator assignment
\* (op1,op2,op3), the candidate [a, b, op1, c, d, op2, op3] has the value of
\* (a op1 b) op2 (c op3 d) whenever both are defined.
C17_BalancedPairOp2Outer ==
    AtFour =>
        LET claimed == Apply(FourOps[2],
                             Apply(FourOps[1], FourP[1], FourP[2]),
                             Apply(FourOps[3], FourP[3], FourP[4]))
        IN (BalancedValue # null /\ claimed # null) => BalancedValue = claimed

\* C17 (amended): the candidate [a, b, op1, c, d, op2, op3] has the value of
\* (a op1 b) op3 (c op2 d), and is rejected exactly when that is undefined:
\* the last operator of the assignment joins the two pairs.
C17_BalancedPairOp3Outer ==
    AtFour =>
        BalancedValue = Apply(FourOps[3],
                              Apply(FourOps[1], FourP[1], FourP[2]),
                              Apply(FourOps[2], FourP[3], FourP[4]))

\* (1+2)*(3+4) = 21, where (1+2)+(3*4) would be 15
C17_Witness ==
    /\ AtFour
    /\ FourP = <<1, 2, 3, 4>>
    /\ FourOps = <<"+", "+", "*">>
    /\ BalancedValue = 21

\* C18: at every point of every invocation the solutions map holds at most
\* one entry, keyed by the target, and exactSolutions of every Result has
\* length 0 or 1.
C18_AtMostOneExact ==
    /\ \A k \in 1..Len(callStack) :
          LET f == callStack[k]
          IN /\ Len(f.solutions) <= 1
             /\ \A j \in 1..Len(f.solutions) :
                   /\ f.solutions[j].key = f.target
                   /\ f.solutions[j].val.value = f.target
    /\ Started => Len(ret.exactSolutions) <= 1

\* several exact candidates were passed and one entry is distilled
C18_Witness ==
    /\ Running
    /\ Top.pc = "distill"
    /\ Top.passed.exact >= 3
    /\ Len(Top.solutions) = 1
    /\ Len(distill(Top.solutions, Top.closest, Top.target).exactSolutions) = 1

HasUnary(rpn) == \E k \in 1..Len(rpn) : IsUnaryOp(rpn[k].op)

NoUnaryIn(r) ==
    /\ ~HasUnary(r.closest.rpn)
    /\ \A k \in 1..Len(r.exactSolutions) : ~HasUnary(r.exactSolutions[k].rpn)

AtEnum == Running /\ Top.pc = "enum"
EnumP == Top.perms[Top.pi]
EnumOps == opComboAt(Top.operators, Len(EnumP) - 1, Top.ci)

\* C19: at every level, no rpn held by closest or by an exact record, in a
\* tracker or in a Result, contains 'sqrt' or '!'; every candidate built for
\* an operator assignment that includes a unary operator is rejected by
\* evaluateRPN.
C19_NoUnaryOperatorStored ==
    /\ \A k \in 1..Len(callStack) :
          LET f == callStack[k]
          IN /\ ~HasUnary(f.closest.rpn)
             /\ \A j \in 1..Len(f.solutions) : ~HasUnary(f.solutions[j].val.rpn)
    /\ NoUnaryIn(ret)
    /\ NoUnaryIn(topResult)
    /\ AtEnum =>
          LET rpns == candidates(EnumP, EnumOps)
          IN \A k \in 1..Len(rpns) :
                 HasUnary(rpns[k]) => evaluateRPN(rpns[k]) = null

\* [3, 4, 'sqrt'] leaves two values on the stack and is rejected
C19_Witness ==
    /\ AtEnum
    /\ EnumP = <<3, 4>>
    /\ EnumOps = <<"sqrt">>
    /\ evaluateRPN(firstCandidate(EnumP, EnumOps)) = null
    /\ Top.passed.n > 0
    /\ ~HasUnary(Top.closest.rpn)

\* how many positions of seq hold x
Count(seq, x) == Cardinality({k \in 1..Len(seq) : seq[k] = x})

\* the number tokens of rpn are the input numbers, each as often as given
NumbersArePermutation(rpn, numbers) ==
    /\ \A k \in 1..Len(rpn) :
          IsNumber(rpn[k]) => Count(rpn, rpn[k]) = Count(numbers, rpn[k].n)
    /\ \A k \in 1..Len(numbers) :
          Count(rpn, Num(numbers[k])) = Count(numbers, numbers[k])

OperatorsOfLevel(rpn, level) ==
    \A k \in 1..Len(rpn) :
        IsNumber(rpn[k]) \/ Includes(opsByLevel(level), rpn[k].op)

\* rpn evaluates to value, uses the input numbers and the level's operators
SoundFor(rpn, value, in) ==
    /\ evaluateRPN(rpn) = value
    /\ in.level \in {StrLevel("B"), StrLevel("1")} =>
          /\ NumbersArePermutation(rpn, in.numbers)
          /\ OperatorsOfLevel(rpn, in.level)

\* C20: in every Result, each exact record of type "normal" and a non-null
\* closest carry an rpn that evaluateRPN values at the record's value, an
\* exact record's value being the target; at levels "B" and "1" the number
\* tokens of that rpn are a permutation of the input numbers and its
\* operators are of the level's set.
C20_RecordsAreSound ==
    /\ Started =>
          /\ \A k \in 1..Len(ret.exactSolutions) :
                LET s == ret.exactSolutions[k]
                IN s.type = "normal" =>
                      evaluateRPN(s.rpn) = s.value /\ s.value = input.target
          /\ ret.closest # nullClosest =>
                evaluateRPN(ret.closest.rpn) = ret.closest.value
    /\ Returned =>
          /\ \A k \in 1..Len(Exact) :
                Exact[k].type = "normal" =>
                    /\ Exact[k].value = input.target
                    /\ SoundFor(Exact[k].rpn, Exact[k].value, input)
          /\ topResult.closest # nullClosest =>
                SoundFor(topResult.closest.rpn, topResult.closest.value, input)

====
